---- MODULE Spec2Model ----
(***************************************************************************)
(* Model of Core/cbench.cpp, the C++ overhead benchmark of TinyEmbree.     *)
(* main() builds a quad scene through the engine's handle API, times a     *)
(* loop of random TraceSingle queries, times the same loop without the     *)
(* query, and prints both per-trial averages and their difference.         *)
(*                                                                         *)
(* One action per statement of main(); pc is the line about to execute.    *)
(* The engine (raytrace.h) is modelled by the state of the scenes it has   *)
(* handed out, the C library by the state of its rand() generator, the     *)
(* clock by an arbitrary reading, the console by the lines written so far. *)
(***************************************************************************)
EXTENDS Integers, Sequences, FiniteSets

\* ---------------------------------------------------------------- bounds
\* Inner loop length; the source has the literal 1000000 (lines 41, 60).
RaysPerTrial == 2
\* Clock period: ticks of high_resolution_clock per millisecond.
TicksPerMs == 2
\* Largest clock reading, in ticks (numTrials milliseconds when TicksPerMs = 2,
\* so that per-trial averages other than 0 occur).
MaxClock == 20

\* ------------------------------------------------------ program constants
numTrials == 10
Seed == 1337
\* The C library's RAND_MAX (the smallest value the C standard allows).
RAND_MAX == 32767

\* float vertices[] and int indices[] of main()
vertices == << -1, 0, -1,   1, 0, -1,   1, 0, 1,   -1, 0, 1 >>
indices == << 0, 1, 2,   0, 2, 3 >>

\* sizeof(array) / sizeof(element)
SizeofRatio(arr) == Len(arr)

\* ---------------------------------------------------- the C library rand
\* srand(seed): the generator's state becomes the seed.
SrandState(seed) == seed % (RAND_MAX + 1)

\* rand(): advances the generator; the value returned is in 0..RAND_MAX and
\* depends on nothing but the generator's state.
Rand(s) ==
    LET n == (s * 25173 + 13849) % (RAND_MAX + 1)
    IN  [state |-> n, value |-> n]

\* (float)a / (float)b, b > 0.  The quotient is kept as the exact fraction
\* a/b; rounding to float is monotone and 0 and 1 are floats, so comparisons
\* of the quotient with 0 and 1 by <= agree with those of the fraction.
FloatDiv(a, b) == [num |-> a, den |-> b]

\* NextRandom3 with each draw divided by half of RAND_MAX.
NextRandom3HalfDivisor(s) ==
    LET r1 == Rand(s)
        r2 == Rand(r1.state)
        r3 == Rand(r2.state)
    IN  [state |-> r3.state,
         vec |-> [x |-> FloatDiv(r1.value, RAND_MAX \div 2),
                  y |-> FloatDiv(r2.value, RAND_MAX \div 2),
                  z |-> FloatDiv(r3.value, RAND_MAX \div 2)]]

\* Vector3 NextRandom3(): three rand() draws, left to right (braced list).
NextRandom3(s) ==
    LET r1 == Rand(s)
        r2 == Rand(r1.state)
        r3 == Rand(r2.state)
    IN  [state |-> r3.state,
         vec |-> [x |-> FloatDiv(r1.value, RAND_MAX),
                  y |-> FloatDiv(r2.value, RAND_MAX),
                  z |-> FloatDiv(r3.value, RAND_MAX)]]

\* Integer division of C++: truncation toward zero (b > 0).
CDiv(a, b) == IF a >= 0 THEN a \div b ELSE -((-a) \div b)

\* duration_cast<milliseconds>(d).count() for a duration of d clock ticks.
DurationCastMs(d) == CDiv(d, TicksPerMs)

NoVector == [x |-> FloatDiv(0, RAND_MAX), y |-> FloatDiv(0, RAND_MAX),
             z |-> FloatDiv(0, RAND_MAX)]
NoRay == [origin |-> NoVector, direction |-> NoVector, time |-> 0]
NoCall == [op |-> "none", h |-> 0, timing |-> "none", ray |-> NoRay,
           numVerts |-> 0, numIdx |-> 0]

VARIABLES
    pc,           \* line of main() about to execute
    sceneHandle,  \* void* sceneHandle (0: not yet assigned)
    meshId,       \* int meshId
    k, i,         \* loop counters
    ray,          \* Ray ray of the current iteration
    hit,          \* Hit hit of the current iteration
    start, end,   \* clock readings
    elapsedMs, totalCost, rngCost,
    exitCode,     \* -1 while main() runs
    rngState,     \* state of the C library generator
    scenes,       \* engine: scenes[h] is the state of the scene with handle h
    out,          \* console: lines written so far
    timing,       \* "A"/"B" between a phase's two clock readings, else "none"
    phasesTimed,  \* number of timed regions closed so far
    lastCall,     \* the most recent engine call and its arguments
    nCalls,       \* number of calls so far, per engine entry point
    randCalls,    \* number of rand() calls so far
    itersA, itersB \* inner iterations completed in each phase

vars == << pc, sceneHandle, meshId, k, i, ray, hit, start, end, elapsedMs,
           totalCost, rngCost, exitCode, rngState, scenes, out, timing,
           phasesTimed, lastCall, nCalls, randCalls, itersA, itersB >>

engineVars == << scenes, lastCall, nCalls >>
clockVars == << start, end, elapsedMs, totalCost, rngCost, timing, phasesTimed >>
loopVars == << k, i, itersA, itersB >>
rngVars == << rngState, randCalls >>
rayVars == << ray, hit >>

EngineOps == {"InitScene", "AddTriangleMesh", "FinalizeScene", "TraceSingle",
              "DeleteScene"}

Init ==
    /\ pc = "L18"
    /\ sceneHandle = 0
    /\ meshId = -1
    /\ k = 0 /\ i = 0
    /\ ray = NoRay
    /\ hit = "none"
    /\ start = 0 /\ end = 0
    /\ elapsedMs = 0 /\ totalCost = 0 /\ rngCost = 0
    /\ exitCode = -1
    /\ rngState = SrandState(1)   \* rand() before srand() behaves as srand(1)
    /\ scenes = << >>
    /\ out = << >>
    /\ timing = "none"
    /\ phasesTimed = 0
    /\ lastCall = NoCall
    /\ nCalls = [op \in EngineOps |-> 0]
    /\ randCalls = 0
    /\ itersA = 0 /\ itersB = 0

\* Record one engine call.
Called(op, h, r, nv, ni) ==
    /\ lastCall' = [op |-> op, h |-> h, timing |-> timing, ray |-> r,
                    numVerts |-> nv, numIdx |-> ni]
    /\ nCalls' = [nCalls EXCEPT ![op] = @ + 1]

\* Engine side of a call on handle h: the scene exists and is not destroyed.
Live(h) == h \in DOMAIN scenes /\ scenes[h].state # "deleted"

\* line 18: void* sceneHandle = InitScene();
InitSceneCall ==
    /\ pc = "L18"
    /\ scenes' = Append(scenes, [state |-> "created", meshes |-> 0])
    /\ sceneHandle' = Len(scenes) + 1
    /\ Called("InitScene", Len(scenes) + 1, NoRay, 0, 0)
    /\ pc' = "L29"
    /\ UNCHANGED << meshId, exitCode, out, clockVars, loopVars, rngVars,
                    rayVars >>

\* lines 29-30: int meshId = AddTriangleMesh(sceneHandle, vertices,
\*     sizeof(vertices) / sizeof(float), indices, sizeof(indices) / sizeof(int));
AddTriangleMeshCall ==
    /\ pc = "L29"
    /\ scenes' = IF Live(sceneHandle)
                 THEN [scenes EXCEPT ![sceneHandle].meshes = @ + 1]
                 ELSE scenes
    /\ meshId' = IF Live(sceneHandle) THEN scenes[sceneHandle].meshes ELSE -1
    /\ Called("AddTriangleMesh", sceneHandle, NoRay, SizeofRatio(vertices),
              SizeofRatio(indices))
    /\ pc' = "L31"
    /\ UNCHANGED << sceneHandle, exitCode, out, clockVars, loopVars, rngVars,
                    rayVars >>

\* main() without the FinalizeScene call.
FinalizeSceneSkipped ==
    /\ pc = "L31"
    /\ pc' = "L36"
    /\ UNCHANGED << sceneHandle, meshId, exitCode, out, clockVars, loopVars,
                    rngVars, rayVars, engineVars >>

\* line 31: FinalizeScene(sceneHandle);
FinalizeSceneCall ==
    /\ pc = "L31"
    /\ scenes' = IF Live(sceneHandle)
                 THEN [scenes EXCEPT ![sceneHandle].state = "finalized"]
                 ELSE scenes
    /\ Called("FinalizeScene", sceneHandle, NoRay, 0, 0)
    /\ pc' = "L36"
    /\ UNCHANGED << sceneHandle, meshId, exitCode, out, clockVars, loopVars,
                    rngVars, rayVars >>

\* main() without the srand call.
SrandOmitted ==
    /\ pc = "L36"
    /\ pc' = "L37"
    /\ UNCHANGED << sceneHandle, meshId, exitCode, out, clockVars, loopVars,
                    rngVars, rayVars, engineVars >>

\* line 36: std::srand(1337);
Srand ==
    /\ pc = "L36"
    /\ rngState' = SrandState(Seed)
    /\ pc' = "L37"
    /\ UNCHANGED << sceneHandle, meshId, exitCode, out, clockVars, loopVars,
                    randCalls, rayVars, engineVars >>

\* One line of console output; hasInt tells whether the line carries a
\* number streamed from an integer.
Line(text, hasInt, n) == [text |-> text, hasInt |-> hasInt, int |-> n]

\* main() without the banner.
BannerOmitted ==
    /\ pc = "L37"
    /\ pc' = "L38"
    /\ UNCHANGED << sceneHandle, meshId, exitCode, out, clockVars, loopVars,
                    rngVars, rayVars, engineVars >>

\* line 37: std::cout << "Tracing a million rays..." << std::endl;
PrintBanner ==
    /\ pc = "L37"
    /\ out' = Append(out, Line("Tracing a million rays...", FALSE, 0))
    /\ pc' = "L38"
    /\ UNCHANGED << sceneHandle, meshId, exitCode, clockVars, loopVars,
                    rngVars, rayVars, engineVars >>

\* line 38: auto start = high_resolution_clock::now();
\* high_resolution_clock need not be steady: any reading is possible.
ClockStartA ==
    /\ pc = "L38"
    /\ \E t \in 0..MaxClock : start' = t
    /\ timing' = "A"
    /\ k' = 0
    /\ pc' = "L40"
    /\ UNCHANGED << sceneHandle, meshId, exitCode, out, end, elapsedMs,
                    totalCost, rngCost, phasesTimed, i, itersA, itersB,
                    rngVars, rayVars, engineVars >>

\* line 40: for (int k = 0; k < numTrials; ++k)   (test)
OuterA ==
    /\ pc = "L40"
    /\ IF k < numTrials
       THEN i' = 0 /\ pc' = "L41"
       ELSE i' = i /\ pc' = "L52"
    /\ UNCHANGED << sceneHandle, meshId, exitCode, out, clockVars, k, itersA,
                    itersB, rngVars, rayVars, engineVars >>

\* The inner loop of Phase A with the trial counter never incremented.
InnerANoTrialIncrement ==
    /\ pc = "L41"
    /\ IF i < RaysPerTrial
       THEN k' = k /\ pc' = "L43"
       ELSE k' = k /\ pc' = "L40"
    /\ UNCHANGED << sceneHandle, meshId, exitCode, out, clockVars, i, itersA,
                    itersB, rngVars, rayVars, engineVars >>

\* line 41: for (int i = 0; i < 1000000; ++i)   (test; on exit, ++k)
InnerA ==
    /\ pc = "L41"
    /\ IF i < RaysPerTrial
       THEN k' = k /\ pc' = "L43"
       ELSE k' = k + 1 /\ pc' = "L40"
    /\ UNCHANGED << sceneHandle, meshId, exitCode, out, clockVars, i, itersA,
                    itersB, rngVars, rayVars, engineVars >>

\* lines 42-43: Ray ray { NextRandom3(),
OriginA ==
    /\ pc = "L43"
    /\ LET r == NextRandom3(rngState)
       IN  /\ ray' = [origin |-> r.vec, direction |-> NoVector, time |-> 0]
           /\ rngState' = r.state
    /\ randCalls' = randCalls + 3
    /\ hit' = "none"
    /\ pc' = "L44"
    /\ UNCHANGED << sceneHandle, meshId, exitCode, out, clockVars, loopVars,
                    engineVars >>

\* lines 44-47: NextRandom3(), 0.0f };  Hit hit;
DirectionA ==
    /\ pc = "L44"
    /\ LET r == NextRandom3(rngState)
       IN  /\ ray' = [ray EXCEPT !.direction = r.vec, !.time = 0]
           /\ rngState' = r.state
    /\ randCalls' = randCalls + 3
    /\ hit' = "fresh"
    /\ pc' = "L48"
    /\ UNCHANGED << sceneHandle, meshId, exitCode, out, clockVars, loopVars,
                    engineVars >>

\* line 48: TraceSingle(sceneHandle, &ray, &hit);   (then ++i)
TraceSingleCall ==
    /\ pc = "L48"
    /\ Called("TraceSingle", sceneHandle, ray, 0, 0)
    /\ hit' = "written"
    /\ i' = i + 1
    /\ itersA' = itersA + 1
    /\ pc' = "L41"
    /\ UNCHANGED << sceneHandle, meshId, exitCode, out, clockVars, k, itersB,
                    rngVars, ray, scenes >>

\* line 52: auto end = high_resolution_clock::now();
ClockEndA ==
    /\ pc = "L52"
    /\ \E t \in 0..MaxClock : end' = t
    /\ timing' = "none"
    /\ phasesTimed' = phasesTimed + 1
    /\ pc' = "L53"
    /\ UNCHANGED << sceneHandle, meshId, exitCode, out, start, elapsedMs,
                    totalCost, rngCost, loopVars, rngVars, rayVars,
                    engineVars >>

\* line 53: auto elapsedMs = duration_cast<milliseconds>(end - start).count();
ElapsedA ==
    /\ pc = "L53"
    /\ elapsedMs' = DurationCastMs(end - start)
    /\ pc' = "L54"
    /\ UNCHANGED << sceneHandle, meshId, exitCode, out, start, end,
                    totalCost, rngCost, timing, phasesTimed, loopVars,
                    rngVars, rayVars, engineVars >>

\* line 54: std::cout << "Done after " << elapsedMs / numTrials << "ms." ...
PrintDone ==
    /\ pc = "L54"
    /\ out' = Append(out, Line("Done after", TRUE, CDiv(elapsedMs, numTrials)))
    /\ pc' = "L55"
    /\ UNCHANGED << sceneHandle, meshId, exitCode, clockVars, loopVars,
                    rngVars, rayVars, engineVars >>

\* line 55: long long totalCost = elapsedMs / numTrials;
SetTotalCost ==
    /\ pc = "L55"
    /\ totalCost' = CDiv(elapsedMs, numTrials)
    /\ pc' = "L58"
    /\ UNCHANGED << sceneHandle, meshId, exitCode, out, start, end,
                    elapsedMs, rngCost, timing, phasesTimed, loopVars,
                    rngVars, rayVars, engineVars >>

\* line 58: start = high_resolution_clock::now();
ClockStartB ==
    /\ pc = "L58"
    /\ \E t \in 0..MaxClock : start' = t
    /\ timing' = "B"
    /\ k' = 0
    /\ pc' = "L59"
    /\ UNCHANGED << sceneHandle, meshId, exitCode, out, end, elapsedMs,
                    totalCost, rngCost, phasesTimed, i, itersA, itersB,
                    rngVars, rayVars, engineVars >>

\* line 59: for (int k = 0; k < numTrials; ++k)   (test)
OuterB ==
    /\ pc = "L59"
    /\ IF k < numTrials
       THEN i' = 0 /\ pc' = "L60"
       ELSE i' = i /\ pc' = "L65"
    /\ UNCHANGED << sceneHandle, meshId, exitCode, out, clockVars, k, itersA,
                    itersB, rngVars, rayVars, engineVars >>

\* The inner loop of Phase B one iteration short.
InnerBShort ==
    /\ pc = "L60"
    /\ IF i < RaysPerTrial - 1
       THEN k' = k /\ pc' = "L61"
       ELSE k' = k + 1 /\ pc' = "L59"
    /\ UNCHANGED << sceneHandle, meshId, exitCode, out, clockVars, i, itersA,
                    itersB, rngVars, rayVars, engineVars >>

\* line 60: for (int i = 0; i < 1000000; ++i)   (test; on exit, ++k)
InnerB ==
    /\ pc = "L60"
    /\ IF i < RaysPerTrial
       THEN k' = k /\ pc' = "L61"
       ELSE k' = k + 1 /\ pc' = "L59"
    /\ UNCHANGED << sceneHandle, meshId, exitCode, out, clockVars, i, itersA,
                    itersB, rngVars, rayVars, engineVars >>

\* line 61: NextRandom3();   (result discarded)
FirstB ==
    /\ pc = "L61"
    /\ rngState' = NextRandom3(rngState).state
    /\ randCalls' = randCalls + 3
    /\ pc' = "L62"
    /\ UNCHANGED << sceneHandle, meshId, exitCode, out, clockVars, loopVars,
                    rayVars, engineVars >>

\* line 62: NextRandom3();   (result discarded; then ++i)
SecondB ==
    /\ pc = "L62"
    /\ rngState' = NextRandom3(rngState).state
    /\ randCalls' = randCalls + 3
    /\ i' = i + 1
    /\ itersB' = itersB + 1
    /\ pc' = "L60"
    /\ UNCHANGED << sceneHandle, meshId, exitCode, out, clockVars, k, itersA,
                    rayVars, engineVars >>

\* line 65: end = high_resolution_clock::now();
ClockEndB ==
    /\ pc = "L65"
    /\ \E t \in 0..MaxClock : end' = t
    /\ timing' = "none"
    /\ phasesTimed' = phasesTimed + 1
    /\ pc' = "L66"
    /\ UNCHANGED << sceneHandle, meshId, exitCode, out, start, elapsedMs,
                    totalCost, rngCost, loopVars, rngVars, rayVars,
                    engineVars >>

\* line 66: elapsedMs = duration_cast<milliseconds>(end - start).count();
ElapsedB ==
    /\ pc = "L66"
    /\ elapsedMs' = DurationCastMs(end - start)
    /\ pc' = "L67"
    /\ UNCHANGED << sceneHandle, meshId, exitCode, out, start, end,
                    totalCost, rngCost, timing, phasesTimed, loopVars,
                    rngVars, rayVars, engineVars >>

\* line 67: std::cout << "RNG overhead " << elapsedMs / numTrials << "ms." ...
PrintRng ==
    /\ pc = "L67"
    /\ out' = Append(out, Line("RNG overhead", TRUE, CDiv(elapsedMs, numTrials)))
    /\ pc' = "L68"
    /\ UNCHANGED << sceneHandle, meshId, exitCode, clockVars, loopVars,
                    rngVars, rayVars, engineVars >>

\* line 68: long long rngCost = elapsedMs / numTrials;
SetRngCost ==
    /\ pc = "L68"
    /\ rngCost' = CDiv(elapsedMs, numTrials)
    /\ pc' = "L70"
    /\ UNCHANGED << sceneHandle, meshId, exitCode, out, start, end,
                    elapsedMs, totalCost, timing, phasesTimed, loopVars,
                    rngVars, rayVars, engineVars >>

\* The difference clamped at zero.
PureCostClamped(total, rng) == IF total < rng THEN 0 ELSE total - rng

\* The value streamed by line 70.
PureCost(total, rng) == total - rng

\* line 70: std::cout << "Pure cost for tracing + overhead: "
\*                    << totalCost - rngCost << "ms." << std::endl;
PrintPure ==
    /\ pc = "L70"
    /\ out' = Append(out, Line("Pure cost for tracing + overhead:", TRUE,
                               PureCost(totalCost, rngCost)))
    /\ pc' = "L72"
    /\ UNCHANGED << sceneHandle, meshId, exitCode, clockVars, loopVars,
                    rngVars, rayVars, engineVars >>

\* main() without the DeleteScene call.
DeleteSceneSkipped ==
    /\ pc = "L72"
    /\ pc' = "L73"
    /\ UNCHANGED << sceneHandle, meshId, exitCode, out, clockVars, loopVars,
                    rngVars, rayVars, engineVars >>

\* DeleteScene called before the Phase B clock is stopped.
DeleteSceneEarly ==
    /\ pc = "L65"
    /\ scenes' = IF Live(sceneHandle)
                 THEN [scenes EXCEPT ![sceneHandle].state = "deleted"]
                 ELSE scenes
    /\ Called("DeleteScene", sceneHandle, NoRay, 0, 0)
    /\ pc' = "L73"
    /\ UNCHANGED << sceneHandle, meshId, exitCode, out, clockVars, loopVars,
                    rngVars, rayVars >>

\* line 72: DeleteScene(sceneHandle);
DeleteSceneCall ==
    /\ pc = "L72"
    /\ scenes' = IF Live(sceneHandle)
                 THEN [scenes EXCEPT ![sceneHandle].state = "deleted"]
                 ELSE scenes
    /\ Called("DeleteScene", sceneHandle, NoRay, 0, 0)
    /\ pc' = "L73"
    /\ UNCHANGED << sceneHandle, meshId, exitCode, out, clockVars, loopVars,
                    rngVars, rayVars >>

\* line 73: return 0;
Return ==
    /\ pc = "L73"
    /\ exitCode' = 0
    /\ pc' = "done"
    /\ UNCHANGED << sceneHandle, meshId, out, clockVars, loopVars, rngVars,
                    rayVars, engineVars >>

Next ==
    \/ InitSceneCall
    \/ AddTriangleMeshCall
    \/ FinalizeSceneCall
    \/ Srand
    \/ PrintBanner
    \/ ClockStartA
    \/ OuterA
    \/ InnerA
    \/ OriginA
    \/ DirectionA
    \/ TraceSingleCall
    \/ ClockEndA
    \/ ElapsedA
    \/ PrintDone
    \/ SetTotalCost
    \/ ClockStartB
    \/ OuterB
    \/ InnerB
    \/ FirstB
    \/ SecondB
    \/ ClockEndB
    \/ ElapsedB
    \/ PrintRng
    \/ SetRngCost
    \/ PrintPure
    \/ DeleteSceneCall
    \/ Return

Spec == Init /\ [][Next]_vars

\* The run ends: every statement of main() is eventually executed.
FairSpec == Spec /\ WF_vars(Next)

\* ------------------------------------------------ NextRandom3 on its own
\* Number of vectors drawn when NextRandom3 is exercised from every state of
\* the generator.
MaxVectors == 2

InitRand ==
    /\ pc = "rand"
    /\ sceneHandle = 0
    /\ meshId = -1
    /\ k = 0 /\ i = 0
    /\ ray = NoRay
    /\ hit = "none"
    /\ start = 0 /\ end = 0
    /\ elapsedMs = 0 /\ totalCost = 0 /\ rngCost = 0
    /\ exitCode = -1
    /\ rngState \in 0..RAND_MAX
    /\ scenes = << >>
    /\ out = << >>
    /\ timing = "none"
    /\ phasesTimed = 0
    /\ lastCall = NoCall
    /\ nCalls = [op \in EngineOps |-> 0]
    /\ randCalls = 0
    /\ itersA = 0 /\ itersB = 0

\* One call of NextRandom3(); the vector returned is kept in ray.origin.
DrawVector ==
    /\ pc = "rand"
    /\ randCalls < 3 * MaxVectors
    /\ LET r == NextRandom3(rngState)
       IN  /\ ray' = [ray EXCEPT !.origin = r.vec]
           /\ rngState' = r.state
    /\ randCalls' = randCalls + 3
    /\ UNCHANGED << pc, sceneHandle, meshId, exitCode, out, clockVars,
                    loopVars, hit, engineVars >>

NextRand == DrawVector

SpecRand == InitRand /\ [][NextRand]_vars

\* ------------------------------------------------------------ properties
Total == numTrials * RaysPerTrial
Components(v) == {v.x, v.y, v.z}
IntLines == {j \in DOMAIN out : out[j].hasInt}
SetupOps == {"InitScene", "AddTriangleMesh", "FinalizeScene"}

TypeOK ==
    /\ exitCode \in {-1, 0}
    /\ timing \in {"none", "A", "B"}
    /\ k \in 0..numTrials /\ i \in 0..RaysPerTrial

\* C1: every TraceSingle call is made on a scene that has been finalized and
\* not destroyed; the mesh is added to a created, not yet finalized scene, and
\* the scene is finalized with its mesh in it; after DeleteScene no further
\* engine call is made.
C1_QueryWithinLifetime ==
    /\ lastCall.op = "TraceSingle" =>
          /\ lastCall.h \in DOMAIN scenes
          /\ scenes[lastCall.h].state = "finalized"
    /\ lastCall.op = "AddTriangleMesh" =>
          /\ lastCall.h \in DOMAIN scenes
          /\ scenes[lastCall.h].state = "created"
    /\ lastCall.op = "FinalizeScene" =>
          /\ lastCall.h \in DOMAIN scenes
          /\ scenes[lastCall.h].meshes = 1
    /\ \A h \in DOMAIN scenes :
          scenes[h].state = "deleted" => lastCall.op = "DeleteScene"

C1_Witness ==
    /\ pc = "done"
    /\ nCalls["TraceSingle"] = Total
    /\ nCalls["FinalizeScene"] = 1
    /\ nCalls["DeleteScene"] = 1

\* C2: one scene is created and one destroyed over the run, the destroyed
\* handle is the created one, the handle is live at every AddTriangleMesh,
\* FinalizeScene and TraceSingle call, and at exit no scene is left.
C2_OneSceneBalanced ==
    /\ nCalls["InitScene"] <= 1
    /\ nCalls["DeleteScene"] <= 1
    /\ Len(scenes) = nCalls["InitScene"]
    /\ lastCall.op \in {"AddTriangleMesh", "FinalizeScene", "TraceSingle"} =>
          Live(lastCall.h)
    /\ lastCall.op = "DeleteScene" =>
          /\ lastCall.h = sceneHandle
          /\ lastCall.h \in DOMAIN scenes
          /\ scenes[lastCall.h].state = "deleted"
    /\ pc = "done" =>
          /\ nCalls["InitScene"] = 1
          /\ nCalls["DeleteScene"] = 1
          /\ \A h \in DOMAIN scenes : scenes[h].state = "deleted"

C2_Witness ==
    /\ pc = "done"
    /\ Len(scenes) = 1
    /\ scenes[1].state = "deleted"

\* C3: the AddTriangleMesh call passes 4 as the vertex count for a buffer of
\* 3 floats per vertex, 6 as the index count, and indices within 0..3.
C3_QuadArguments ==
    /\ nCalls["AddTriangleMesh"] <= 1
    /\ lastCall.op = "AddTriangleMesh" =>
          /\ lastCall.numVerts = 4
          /\ Len(vertices) = 3 * lastCall.numVerts
          /\ lastCall.numIdx = 6
          /\ \A j \in DOMAIN indices : indices[j] \in 0..3

\* C4: each phase runs numTrials * RaysPerTrial inner iterations, every
\* iteration of either phase makes 6 rand() draws, Phase A makes one
\* TraceSingle call per iteration with a ray whose parameter is 0 and a fresh
\* Hit, and Phase B makes no TraceSingle call.
C4_SameWorkBothPhases ==
    /\ itersA <= Total /\ itersB <= Total
    /\ pc = "L41" =>
          /\ itersA = k * RaysPerTrial + i
          /\ randCalls = 6 * itersA
          /\ nCalls["TraceSingle"] = itersA
    /\ pc = "L48" => hit = "fresh" /\ ray.time = 0
    /\ lastCall.op = "TraceSingle" => lastCall.ray.time = 0
    /\ phasesTimed >= 1 => itersA = Total /\ nCalls["TraceSingle"] = Total
    /\ pc = "L60" =>
          /\ itersB = k * RaysPerTrial + i
          /\ randCalls = 6 * (Total + itersB)
    /\ phasesTimed = 2 => itersB = Total /\ randCalls = 12 * Total

C4_Witness ==
    /\ pc = "done"
    /\ itersA = Total /\ itersB = Total
    /\ nCalls["TraceSingle"] = Total

\* The state of a generator in state s after m further calls of NextRandom3.
RECURSIVE AfterVectors(_, _)
AfterVectors(s, m) ==
    IF m = 0 THEN s
    ELSE LET t == NextRandom3(s).state
         IN  IF t \in 0..RAND_MAX THEN AfterVectors(t, m - 1) ELSE t

\* The j-th ray (j >= 1) sampled by a generator seeded with seed: a function
\* of the seed alone.
ExpectedRay(seed, j) ==
    LET o == NextRandom3(AfterVectors(SrandState(seed), 2 * (j - 1)))
        d == NextRandom3(o.state)
    IN  [origin |-> o.vec, direction |-> d.vec, time |-> 0]

\* C5: the i-th ray traced in Phase A is the i-th ray determined by the seed
\* 1337, whatever the clock readings are.
C5_DeterministicRays ==
    (pc = "L41" /\ itersA > 0) =>
        /\ lastCall.op = "TraceSingle"
        /\ lastCall.ray = ExpectedRay(1337, itersA)

C5_Witness ==
    /\ pc = "L41"
    /\ itersA = Total
    /\ start > 0
    /\ lastCall.ray # ExpectedRay(1337, 1)

\* C6: each printed per-trial value is that phase's elapsed milliseconds
\* divided by numTrials, and the printed pure cost is the first minus the
\* second, negative when the RNG-only phase took longer.
C6_PureCostIsDifference ==
    /\ pc = "L55" =>
          out[2].int = CDiv(DurationCastMs(end - start), numTrials)
    /\ pc = "L68" =>
          out[3].int = CDiv(DurationCastMs(end - start), numTrials)
    /\ pc = "L70" => totalCost = out[2].int /\ rngCost = out[3].int
    /\ Len(out) = 4 => out[4].int = out[2].int - out[3].int

C6_Witness ==
    /\ Len(out) = 4
    /\ out[2].int < out[3].int
    /\ out[4].int < 0

\* C7 as stated: every component of a vector returned by NextRandom3 is at
\* least 0 and strictly less than 1.
C7_HalfOpen ==
    \A c \in Components(ray.origin) : 0 <= c.num /\ c.num < c.den

\* C7 as amended: every component of a vector returned by NextRandom3 lies in
\* the closed interval [0, 1].
C7_Closed ==
    \A c \in Components(ray.origin) : 0 <= c.num /\ c.num <= c.den

\* A draw in which rand() returned RAND_MAX: the component is exactly 1.
C7_Witness ==
    /\ randCalls > 0
    /\ \E c \in Components(ray.origin) : c.num = c.den

\* C8: setup calls and DeleteScene are made with no timed region open, setup
\* is complete when the Phase A clock starts, DeleteScene comes after both
\* regions are closed, the only engine call inside region A is TraceSingle and
\* there is none inside region B.
C8_SetupOutsideTimedRegions ==
    /\ lastCall.op \in SetupOps \cup {"DeleteScene"} => lastCall.timing = "none"
    /\ lastCall.timing = "A" => lastCall.op = "TraceSingle"
    /\ lastCall.timing # "B"
    /\ (timing # "none" \/ phasesTimed >= 1) =>
          \A op \in SetupOps : nCalls[op] = 1
    /\ nCalls["DeleteScene"] > 0 => phasesTimed = 2 /\ timing = "none"
    /\ timing = "A" => phasesTimed = 0
    /\ timing = "B" => phasesTimed = 1

C8_Witness ==
    /\ pc = "done"
    /\ phasesTimed = 2
    /\ lastCall.op = "DeleteScene"
    /\ start # end

\* C9: the run always ends: neither loop runs more than numTrials *
\* RaysPerTrial iterations, main() returns with exit code 0 after the scene
\* has been destroyed, and no other exit code is ever produced.
C9_Terminates ==
    /\ [](/\ exitCode \in {-1, 0}
          /\ itersA <= Total
          /\ itersB <= Total)
    /\ <>(/\ pc = "done"
          /\ exitCode = 0
          /\ itersA = Total /\ itersB = Total
          /\ nCalls["DeleteScene"] = 1)

C9_Witness ==
    /\ pc = "done"
    /\ exitCode = 0
    /\ itersB = Total

\* C10 as stated: on a completed run four integer millisecond values have
\* been printed.
C10_FourIntegers ==
    pc = "done" => Cardinality(IntLines) = 4

\* C10 as amended: a completed run has printed four lines, the banner and
\* then three lines carrying one integer each: total time per trial, RNG
\* overhead per trial, pure cost; the banner is printed before Phase A starts
\* and each phase's line after that phase has finished.
C10_BannerThenThreeValues ==
    /\ pc = "done" =>
          /\ Len(out) = 4
          /\ [j \in 1..4 |-> out[j].text] =
                << "Tracing a million rays...", "Done after", "RNG overhead",
                   "Pure cost for tracing + overhead:" >>
          /\ IntLines = {2, 3, 4}
          /\ out[2].int = totalCost
          /\ out[3].int = rngCost
    /\ (timing = "A" \/ itersA > 0) => Len(out) >= 1
    /\ Len(out) >= 2 => phasesTimed >= 1 /\ itersA = Total
    /\ Len(out) >= 3 => phasesTimed = 2 /\ itersB = Total

C10_Witness ==
    /\ pc = "done"
    /\ Len(out) = 4
    /\ out[2].int # out[3].int
====
